---- MODULE Spec2Model ----
(***************************************************************************)
(* A model of synapse_uploader.py: the SynapseUploader class, which        *)
(* mirrors a local directory tree into a Synapse project.                  *)
(*                                                                         *)
(* Strings are sequences of one-character strings, so that strip, split,   *)
(* replace, os.path.join, dirname and basename are computed as Python      *)
(* computes them.  One or two uploader objects (runs) exist; with two,     *)
(* the second is started once the first has completed, on the same local   *)
(* tree, so that two runs can be compared.                                 *)
(***************************************************************************)
EXTENDS Integers, Sequences, FiniteSets, TLC

\* fs       the local tree as os.walk sees it (line 58): for each directory,
\*          the names of its subdirectories and files in listing order
\* environ  os.environ of each run (lines 86-87)
\* argv     the parsed command line of each run (lines 143-148)
\* self     the fields of each SynapseUploader object (lines 25-34, 89)
\* frame    where each run is in start(), with start()'s local variables, the
\*          directories os.walk has yet to yield and the uncaught exception
\* synapse  the entities the Synapse service of each run holds
\* calls    the login, get and store calls each run made (lines 90, 47, 121, 138)
\* console  the lines each run printed
\* ops      the create_directory_in_synapse and upload_file_to_synapse calls
\*          each run completed, with the values of their local variables
\* nobj     the number of entity objects each run constructed (lines 47, 115)
VARIABLES fs, environ, argv, self, frame, synapse, calls, console, ops, nobj

vars == <<fs, environ, argv, self, frame, synapse, calls, console, ops, nobj>>

(***************************************************************************)
(* Bounds of the model.                                                    *)
(***************************************************************************)
\* The largest number of directories below the local root (and so the depth).
MaxDirs == 2
\* The largest number of files in the local tree.
MaxFiles == 2

(***************************************************************************)
(* Characters and strings.                                                 *)
(***************************************************************************)
\* os.sep on a POSIX system.
SEP == "/"
\* The whitespace character that str.strip() removes.
SP == " "
\* Python's None, as a value that is no string of characters.
None == <<"None">>
\* The empty string ''.
Empty == <<>>

RECURSIVE LStrip(_, _)
\* str.lstrip(c): the leading run of c removed.
LStrip(s, c) == IF s # <<>> /\ Head(s) = c THEN LStrip(Tail(s), c) ELSE s

RECURSIVE RStrip(_, _)
\* str.rstrip(c): the trailing run of c removed.
RStrip(s, c) ==
    IF s # <<>> /\ s[Len(s)] = c THEN RStrip(SubSeq(s, 1, Len(s) - 1), c) ELSE s

\* str.strip(): leading and trailing whitespace removed.
Strip(s) == RStrip(LStrip(s, SP), SP)

\* s[n:], the string without its first n characters.
Drop(s, n) == SubSeq(s, n + 1, Len(s))

\* s.startswith(p)
StartsWith(s, p) == Len(s) >= Len(p) /\ SubSeq(s, 1, Len(p)) = p

RECURSIVE Replace(_, _)
\* str.replace(old, ''): every non-overlapping occurrence of old, found from
\* the left, removed.
Replace(s, old) ==
    IF Len(s) < Len(old) \/ old = <<>> THEN s
    ELSE IF StartsWith(s, old) THEN Replace(Drop(s, Len(old)), old)
    ELSE <<Head(s)>> \o Replace(Tail(s), old)

RECURSIVE SplitFrom(_, _, _)
SplitFrom(s, c, cur) ==
    IF s = <<>> THEN <<cur>>
    ELSE IF Head(s) = c THEN <<cur>> \o SplitFrom(Tail(s), c, <<>>)
    ELSE SplitFrom(Tail(s), c, Append(cur, Head(s)))

\* str.split(c): the list of the segments between occurrences of c, the empty
\* ones included.
Split(s, c) == SplitFrom(s, c, <<>>)

\* filter(None, list): the list without its empty strings.
FilterNone(list) ==
    LET NonEmpty(x) == x # <<>> IN SelectSeq(list, NonEmpty)

\* posixpath.join(a, b)
Join(a, b) ==
    IF b # <<>> /\ Head(b) = SEP THEN b
    ELSE IF a = <<>> \/ a[Len(a)] = SEP THEN a \o b
    ELSE a \o <<SEP>> \o b

\* posixpath.join(a, b, c)
Join3(a, b, c) == Join(Join(a, b), c)

RECURSIVE LastSep(_)
\* p.rfind('/') + 1: the position of the last separator of p, 0 when none.
LastSep(p) ==
    IF p = <<>> THEN 0
    ELSE IF p[Len(p)] = SEP THEN Len(p)
    ELSE LastSep(SubSeq(p, 1, Len(p) - 1))

\* posixpath.dirname(p)
DirName(p) ==
    LET head == SubSeq(p, 1, LastSep(p))
    IN  IF head # <<>> /\ (\E i \in 1..Len(head) : head[i] # SEP)
        THEN RStrip(head, SEP) ELSE head

\* posixpath.basename(p)
BaseName(p) == Drop(p, LastSep(p))

(***************************************************************************)
(* The inputs: the command line, the environment and the local tree.       *)
(***************************************************************************)
\* The project ids given on the command line.
ProjectIds == {<<"s", "1">>}

\* The local folder paths given on the command line: a relative path with a
\* trailing separator, and an absolute path.
LocalPathArgs == {<<"d", "/">>, <<"/", "d">>}

\* The values of --remote-folder-path: absent, empty, whitespace only,
\* separators in whitespace, one segment, one segment in separators and
\* whitespace, two segments, two segments with a doubled separator.
RemotePathArgs ==
    { None,
      Empty,
      <<" ">>,
      <<" ", "/", " ">>,
      <<"r">>,
      <<" ", "/", "r", "/">>,
      <<"r", "/", "q">>,
      <<"r", "/", "/", "q">> }

\* The names of the environment variables login() reads.
EnvNames == {"SYNAPSE_USER", "SYNAPSE_PASSWORD"}

\* The names a local directory can have, and the names a local file can have.
DirNames == {<<"d">>, <<"x">>}
FileNames == {<<"f">>}

\* The orders in which os.scandir can list the entries of a directory.
ScanOrders == {<<(<<"d">>), (<<"x">>)>>, <<(<<"x">>), (<<"d">>)>>}
FileOrder == <<(<<"f">>)>>

\* A directory below the local root is the sequence of the names that lead to
\* it; the local root is the empty sequence.
Root == <<>>
RelDirs == UNION {[1..n -> DirNames] : n \in 1..MaxDirs}
Parent(rel) == SubSeq(rel, 1, Len(rel) - 1)

\* The sets of directories a local tree can consist of.
DirSets ==
    {D \in SUBSET RelDirs :
        /\ Cardinality(D) <= MaxDirs
        /\ \A p \in D : Len(p) > 1 => Parent(p) \in D}

\* The sets of files, each a <<directory, name>>, of a tree of directories D.
FileSets(D) ==
    {F \in SUBSET ((D \cup {Root}) \X FileNames) : Cardinality(F) <= MaxFiles}

\* What os.scandir lists in each directory of the tree: the names of its
\* subdirectories and of its files, in listing order.
Listing(D, F, order) ==
    [p \in D \cup {Root} |->
        LET IsDir(n) == Append(p, n) \in D
            IsFile(n) == <<p, n>> \in F
        IN  [dirnames |-> SelectSeq(order, IsDir),
             filenames |-> SelectSeq(FileOrder, IsFile)]]

\* The local trees: every tree of at most MaxDirs directories and MaxFiles
\* files, in every listing order.
LocalTrees ==
    UNION {{Listing(D, F, order) : F \in FileSets(D), order \in ScanOrders} :
              D \in DirSets}

RECURSIVE os_walk(_)
RECURSIVE walk_below(_, _)
\* The walks of the subdirectories names of the directory rel, one after the
\* other.
walk_below(rel, names) ==
    IF names = <<>> THEN <<>>
    ELSE os_walk(Append(rel, Head(names))) \o walk_below(rel, Tail(names))

\* os.walk(top, topdown=False): a directory is yielded after the directories
\* below it.
os_walk_bottom_up(rel) == walk_below(rel, fs[rel].dirnames) \o <<rel>>

\* os.walk(top): the directories in the order they are yielded, a directory
\* before the directories below it, those in listing order.
os_walk(rel) == <<rel>> \o walk_below(rel, fs[rel].dirnames)

RECURSIVE DirPath(_, _)
\* The dirpath os.walk(top) yields for a directory: top joined with the names
\* that lead to it.
DirPath(top, rel) ==
    IF rel = <<>> THEN top ELSE Join(DirPath(top, Parent(rel)), rel[Len(rel)])

(***************************************************************************)
(* The Synapse service.  An entity is [kind, name, parent]; its id is its  *)
(* position in the sequence of stored entities.                            *)
(***************************************************************************)
\* The id of the project entity, which exists before the run.
ProjectEntityId == 1
\* 'syn0', the id a dry run gives a folder.
DryRunFolderId == 0

\* The service before a run: the project alone (a root is its own parent).
InitialSynapse(project_id) ==
    <<[kind |-> "Project", name |-> project_id, parent |-> ProjectEntityId]>>

\* The id Synapse.store gives an entity: that of the stored entity of the same
\* kind, name and parent when there is one (create or reuse), else a new id.
StoredId(entities, e) ==
    IF \E i \in 1..Len(entities) : entities[i] = e
    THEN CHOOSE i \in 1..Len(entities) : entities[i] = e
    ELSE Len(entities) + 1

\* The entities after Synapse.store(e).
Stored(entities, e) ==
    IF \E i \in 1..Len(entities) : entities[i] = e
    THEN entities ELSE Append(entities, e)

(***************************************************************************)
(* SynapseUploader.  A method is an operator on the world w of one run:    *)
(* the object's fields (w.self), the service (w.synapse), the remote calls *)
(* made (w.calls), the lines printed (w.console), the history of the       *)
(* folder and file operations (w.ops), the objects allocated (w.nobj) and  *)
(* the exception raised, if any (w.error).                                 *)
(***************************************************************************)
\* print with the file line moved under "if not self._dry_run".
print_file_unless_dry_run(w, text, arg) ==
    IF w.self.dry_run /\ text = "Processing File" THEN w
    ELSE [w EXCEPT !.console = Append(@, [text |-> text, arg |-> arg])]

\* print(text.format(arg))
print(w, text, arg) ==
    [w EXCEPT !.console = Append(@, [text |-> text, arg |-> arg])]

\* The exceptions a run can end with: a dictionary lookup of a missing key, and
\* a failure of a call of the Synapse client.
NoError == [exc |-> "none"]
KeyError(key) == [exc |-> "KeyError", key |-> key]
SynapseError == [exc |-> "SynapseError"]

\* The exception caught and dropped where it is raised: the run goes on.
Raise_swallowed(w, exc) == w

\* An uncaught exception: it propagates out of start().
Raise(w, exc) == [w EXCEPT !.error = exc]

\* __init__ with the remote path tested and kept without strip().
SynapseUploader_no_strip(synapse_project, local_path, remote_path, dry_run) ==
    [dry_run |-> dry_run,
     synapse_project |-> synapse_project,
     local_path |-> RStrip(local_path, SEP),
     remote_path |->
        IF remote_path # None /\ Len(remote_path) > 0
        THEN LET stripped == RStrip(LStrip(remote_path, SEP), SEP)
             IN  IF Len(stripped) = 0 THEN None ELSE stripped
        ELSE None,
     synapse_folders |-> <<>>,
     synapse_client |-> None]

\* SynapseUploader.__init__
SynapseUploader(synapse_project, local_path, remote_path, dry_run) ==
    [dry_run |-> dry_run,
     synapse_project |-> synapse_project,
     local_path |-> RStrip(local_path, SEP),
     remote_path |->
        IF remote_path # None /\ Len(Strip(remote_path)) > 0
        THEN LET stripped == RStrip(LStrip(Strip(remote_path), SEP), SEP)
             IN  IF Len(stripped) = 0 THEN None ELSE stripped
        ELSE None,
     synapse_folders |-> <<>>,
     synapse_client |-> None]

\* SynapseUploader.get_synapse_folder: the key is in the dictionary, or the
\* lookup raises KeyError.
HasFolder(s, synapse_path) == synapse_path \in DOMAIN s.synapse_folders
get_synapse_folder(s, synapse_path) == s.synapse_folders[synapse_path]

\* set_synapse_folder assigning to a local dictionary: the cache is left as
\* it was.
set_synapse_folder_lost(w, synapse_path, parent) == w

\* SynapseUploader.set_synapse_folder
set_synapse_folder(w, synapse_path, parent) ==
    [w EXCEPT !.self.synapse_folders =
        [k \in DOMAIN @ \cup {synapse_path} |->
            IF k = synapse_path THEN parent ELSE @[k]]]

\* SynapseUploader.get_synapse_path
get_synapse_path(s, local_path, virtual_path) ==
    IF virtual_path
    THEN Join(s.synapse_project, local_path)
    ELSE Join3(s.synapse_project,
               IF s.remote_path # None /\ s.remote_path # Empty
               THEN s.remote_path ELSE Empty,
               Replace(local_path, s.local_path \o <<SEP>>))

\* login with the password read by os.environ.get: its absence goes unnoticed.
login_password_optional(w, env, ok) ==
    LET w1 == print(w, "Logging into Synapse...", Empty)
    IN  IF "SYNAPSE_USER" \notin env THEN Raise(w1, KeyError(<<"SYNAPSE_USER">>))
        ELSE LET w2 == [w1 EXCEPT !.self.synapse_client = <<"Synapse">>,
                                  !.calls = Append(@, [op |-> "login", ok |-> ok])]
             IN  IF ok THEN w2 ELSE Raise(w2, SynapseError)

\* SynapseUploader.login.  env is os.environ; ok is whether the service
\* accepts the login.
login(w, env, ok) ==
    LET w1 == print(w, "Logging into Synapse...", Empty)
    IN  IF "SYNAPSE_USER" \notin env THEN Raise(w1, KeyError(<<"SYNAPSE_USER">>))
        ELSE IF "SYNAPSE_PASSWORD" \notin env
        THEN Raise(w1, KeyError(<<"SYNAPSE_PASSWORD">>))
        ELSE LET w2 == [w1 EXCEPT !.self.synapse_client = <<"Synapse">>,
                                  !.calls = Append(@, [op |-> "login", ok |-> ok])]
             IN  IF ok THEN w2 ELSE Raise(w2, SynapseError)

\* self._synapse_client.store(entity, forceVersion=False); ok is whether the
\* service accepts the call.
store(w, e, ok) ==
    LET w1 == [w EXCEPT !.calls = Append(@,
                  [op |-> "store", kind |-> e.kind, name |-> e.name,
                   parent |-> e.parent, ok |-> ok])]
    IN  IF ok THEN [w1 EXCEPT !.synapse = Stored(@, e)]
        ELSE Raise(w1, SynapseError)

\* folder_id with the dry-run test lost: the id is always the one the service
\* would give.
folder_id_from_store(w, e) == StoredId(w.synapse, e)

\* create_directory_in_synapse, lines 117-121: the id of the new folder, the
\* fake one in a dry run, else the one Synapse.store returns.
folder_id(w, e) ==
    IF w.self.dry_run THEN DryRunFolderId ELSE StoredId(w.synapse, e)

\* SynapseUploader.create_directory_in_synapse
create_directory_in_synapse(w, path, virtual_path, ok) ==
    LET w1 == print(w, "Processing Folder", path)
        full_synapse_path == get_synapse_path(w.self, path, virtual_path)
        synapse_parent_path == DirName(full_synapse_path)
    IN  IF ~HasFolder(w.self, synapse_parent_path)
        THEN Raise(w1, KeyError(synapse_parent_path))
        ELSE
        LET synapse_parent == get_synapse_folder(w.self, synapse_parent_path)
            folder_name == BaseName(full_synapse_path)
            w2 == [print(w1, "->", full_synapse_path) EXCEPT !.nobj = @ + 1]
            e == [kind |-> "Folder", name |-> folder_name,
                  parent |-> synapse_parent.id]
            w3 == IF w.self.dry_run THEN w2 ELSE store(w2, e, ok)
            synapse_folder ==
                [id |-> folder_id(w2, e),
                 name |-> folder_name,
                 parent |-> synapse_parent.id,
                 obj |-> w2.nobj]
            done == [op |-> "create", path |-> path, virtual |-> virtual_path,
                     synapse_path |-> full_synapse_path,
                     parent_path |-> synapse_parent_path,
                     parent |-> synapse_parent,
                     existed |-> HasFolder(w.self, full_synapse_path),
                     handle |-> synapse_folder]
        IN  IF w3.error # NoError THEN w3
            ELSE [set_synapse_folder(w3, full_synapse_path, synapse_folder)
                     EXCEPT !.ops = Append(@, done)]

\* SynapseUploader.upload_file_to_synapse
upload_file_to_synapse(w, local_file, ok) ==
    LET w1 == print(w, "Processing File", local_file)
        full_synapse_path == get_synapse_path(w.self, local_file, FALSE)
        synapse_parent_path == DirName(full_synapse_path)
    IN  IF ~HasFolder(w.self, synapse_parent_path)
        THEN Raise(w1, KeyError(synapse_parent_path))
        ELSE
        LET synapse_parent == get_synapse_folder(w.self, synapse_parent_path)
            w2 == print(w1, "->", full_synapse_path)
            e == [kind |-> "File", name |-> BaseName(local_file),
                  parent |-> synapse_parent.id]
            w3 == IF ~w.self.dry_run THEN store(w2, e, ok) ELSE w2
            done == [op |-> "upload", path |-> local_file, virtual |-> FALSE,
                     synapse_path |-> full_synapse_path,
                     parent_path |-> synapse_parent_path,
                     parent |-> synapse_parent]
        IN  IF w3.error # NoError THEN w3
            ELSE [w3 EXCEPT !.ops = Append(@, done)]

(***************************************************************************)
(* The state machine.  start() is a sequence of steps; frame[r] holds the  *)
(* position of run r in it and the local variables of start() and of the   *)
(* os.walk generator.                                                      *)
(***************************************************************************)
Args ==
    [project_id : ProjectIds, local_folder_path : LocalPathArgs,
     remote_folder_path : RemotePathArgs, dry_run : BOOLEAN]

Environments == SUBSET EnvNames

\* main(): the uploader is constructed from the command line.
InitOf(tree, args, env) ==
    /\ fs = tree
    /\ argv = args
    /\ environ = env
    /\ self = [r \in DOMAIN args |->
                 SynapseUploader(args[r].project_id, args[r].local_folder_path,
                                 args[r].remote_folder_path, args[r].dry_run)]
    /\ frame = [r \in DOMAIN args |->
                 [pc |-> "start", error |-> NoError, segs |-> <<>>,
                  full_path |-> Empty, stack |-> <<>>, dirpath |-> Empty,
                  filenames |-> <<>>]]
    /\ synapse = [r \in DOMAIN args |-> InitialSynapse(args[r].project_id)]
    /\ calls = [r \in DOMAIN args |-> <<>>]
    /\ console = [r \in DOMAIN args |-> <<>>]
    /\ ops = [r \in DOMAIN args |-> <<>>]
    /\ nobj = [r \in DOMAIN args |-> 0]

\* One run, of any command line, environment and local tree.
Init ==
    \E tree \in LocalTrees, a \in Args, env \in Environments :
        InitOf(tree, <<a>>, <<env>>)

\* Two runs on the same tree, command line and environment, the first a dry
\* run and the second a real one.
InitDryPair ==
    \E tree \in LocalTrees, a \in Args, env \in Environments :
        /\ a.dry_run
        /\ InitOf(tree, <<a, [a EXCEPT !.dry_run = FALSE]>>, <<env, env>>)

\* The remote paths other remote paths are compared with: none, and two
\* segments.
ReferenceRemotePaths == {None, <<"r", "/", "q">>}

\* Two runs on the same tree and environment, whose command lines differ in
\* the remote path only; the first has a reference remote path.
InitPrefixPair ==
    \E tree \in LocalTrees, a \in Args, env \in Environments,
       ref \in ReferenceRemotePaths :
        InitOf(tree, <<[a EXCEPT !.remote_folder_path = ref], a>>, <<env, env>>)

Runs == DOMAIN frame

\* A run that ended by itself: it completed, or a lookup in the folder cache
\* raised KeyError.  (A run the environment cut short is compared with none.)
EndedByItself(q) ==
    \/ frame[q].pc = "done"
    \/ frame[q].pc = "failed" /\ frame[q].error.exc = "KeyError"
                              /\ calls[q] # <<>>

\* Runs are made one after the other.
Turn(r) == \A q \in Runs : q < r => EndedByItself(q)

World(r) ==
    [self |-> self[r], synapse |-> synapse[r], calls |-> calls[r],
     console |-> console[r], ops |-> ops[r], nobj |-> nobj[r],
     error |-> NoError]

\* The step of run r ends in world w: with the frame fr, or, when an exception
\* was raised, out of start().
Commit(r, w, fr) ==
    /\ self' = [self EXCEPT ![r] = w.self]
    /\ synapse' = [synapse EXCEPT ![r] = w.synapse]
    /\ calls' = [calls EXCEPT ![r] = w.calls]
    /\ console' = [console EXCEPT ![r] = w.console]
    /\ ops' = [ops EXCEPT ![r] = w.ops]
    /\ nobj' = [nobj EXCEPT ![r] = w.nobj]
    /\ frame' = [frame EXCEPT ![r] =
                    IF w.error # NoError
                    THEN [frame[r] EXCEPT !.pc = "failed", !.error = w.error]
                    ELSE fr]
    /\ UNCHANGED <<fs, environ, argv>>

\* start(), lines 37-43: the banner.
Start(r) ==
    /\ frame[r].pc = "start"
    /\ Turn(r)
    /\ LET w0 == World(r)
           w1 == IF self[r].dry_run THEN print(w0, "~~ Dry Run ~~", Empty) ELSE w0
           w2 == print(w1, "Uploading to Project", self[r].synapse_project)
           w3 == print(w2, "Uploading Directory", self[r].local_path)
           w4 == IF self[r].remote_path # None
                 THEN print(w3, "Uploading To", self[r].remote_path) ELSE w3
       IN  Commit(r, w4, [frame[r] EXCEPT !.pc = "login"])

\* start(), line 45: self.login().
Login(r) ==
    /\ frame[r].pc = "login"
    /\ \E ok \in BOOLEAN :
          Commit(r, login(World(r), environ[r], ok),
                 [frame[r] EXCEPT !.pc = "get"])

\* The segments of the remote path the loop of line 53 goes through.
PrefixSegments(s) ==
    IF s.remote_path # None THEN FilterNone(Split(s.remote_path, SEP)) ELSE <<>>

\* start(), lines 47-58: the project is fetched and cached; the loop over the
\* remote path and os.walk(self._local_path) begin.
GetProject(r) ==
    /\ frame[r].pc = "get"
    /\ \E ok \in BOOLEAN :
          LET w0 == World(r)
              w1 == [w0 EXCEPT !.calls = Append(@,
                        [op |-> "get", id |-> self[r].synapse_project, ok |-> ok]),
                               !.nobj = @ + 1]
              project == [id |-> ProjectEntityId,
                          name |-> self[r].synapse_project,
                          parent |-> synapse[r][ProjectEntityId].parent,
                          obj |-> w1.nobj]
              w2 == IF ok
                    THEN set_synapse_folder(w1, self[r].synapse_project, project)
                    ELSE Raise(w1, SynapseError)
              segs == PrefixSegments(self[r])
          IN  Commit(r, w2,
                     [frame[r] EXCEPT !.pc = IF segs # <<>> THEN "prefix" ELSE "walk",
                                      !.segs = segs,
                                      !.full_path = Empty,
                                      !.stack = os_walk(Root)])

\* start(), lines 53-55: one iteration of the loop over the remote path.
CreatePrefix(r) ==
    /\ frame[r].pc = "prefix"
    /\ \E ok \in BOOLEAN :
          LET folder == Head(frame[r].segs)
              full_path == Join(frame[r].full_path, folder)
              rest == Tail(frame[r].segs)
          IN  Commit(r, create_directory_in_synapse(World(r), full_path, TRUE, ok),
                     [frame[r] EXCEPT !.pc = IF rest # <<>> THEN "prefix" ELSE "walk",
                                      !.segs = rest,
                                      !.full_path = full_path])

\* The test of line 60 left out: the root is taken for a directory below it.
below_local_root_untested(s, dirpath) == TRUE

\* start(), line 60: dirpath != self._local_path.
below_local_root(s, dirpath) == dirpath # s.local_path

\* start(), lines 58-61: os.walk yields the next directory, top-down, and its
\* remote folder is created unless it is the local root.
WalkDir(r) ==
    /\ frame[r].pc = "walk"
    /\ frame[r].stack # <<>>
    /\ \E ok \in BOOLEAN :
          LET rel == Head(frame[r].stack)
              dirpath == DirPath(self[r].local_path, rel)
              filenames == fs[rel].filenames
              w == IF below_local_root(self[r], dirpath)
                   THEN create_directory_in_synapse(World(r), dirpath, FALSE, ok)
                   ELSE World(r)
          IN  Commit(r, w,
                     [frame[r] EXCEPT !.pc = IF filenames # <<>> THEN "files" ELSE "walk",
                                      !.stack = Tail(frame[r].stack),
                                      !.dirpath = dirpath,
                                      !.filenames = filenames])

\* start(), lines 63-65: the next file of the directory is uploaded.
UploadFile(r) ==
    /\ frame[r].pc = "files"
    /\ \E ok \in BOOLEAN :
          LET filename == Head(frame[r].filenames)
              full_file_name == Join(frame[r].dirpath, filename)
              rest == Tail(frame[r].filenames)
          IN  Commit(r, upload_file_to_synapse(World(r), full_file_name, ok),
                     [frame[r] EXCEPT !.pc = IF rest # <<>> THEN "files" ELSE "walk",
                                      !.filenames = rest])

\* start(), lines 67-70: the walk is over.
Finish(r) ==
    /\ frame[r].pc = "walk"
    /\ frame[r].stack = <<>>
    /\ Commit(r, print(World(r),
                       IF self[r].dry_run THEN "Dry Run Completed Successfully."
                       ELSE "Upload Completed Successfully.", Empty),
              [frame[r] EXCEPT !.pc = "done"])

Next ==
    \/ \E r \in Runs : Start(r)
    \/ \E r \in Runs : Login(r)
    \/ \E r \in Runs : GetProject(r)
    \/ \E r \in Runs : CreatePrefix(r)
    \/ \E r \in Runs : WalkDir(r)
    \/ \E r \in Runs : UploadFile(r)
    \/ \E r \in Runs : Finish(r)

Spec == Init /\ [][Next]_vars

SpecDryPair == InitDryPair /\ [][Next]_vars

SpecPrefixPair == InitPrefixPair /\ [][Next]_vars

(***************************************************************************)
(* Definitions the properties are stated with.                             *)
(***************************************************************************)
\* The last line run r printed.
LastLine(r) == console[r][Len(console[r])]

\* Run r ended with a KeyError raised by a lookup in the folder cache, in the
\* operation that had printed the line text.
CacheLookupFailed(r, text) ==
    /\ frame[r].pc = "failed"
    /\ frame[r].error.exc = "KeyError"
    /\ calls[r] # <<>>
    /\ LastLine(r).text = text

\* The folder and file operations run r completed, by kind.
Creates(r) == {i \in 1..Len(ops[r]) : ops[r][i].op = "create"}
Uploads(r) == {i \in 1..Len(ops[r]) : ops[r][i].op = "upload"}
LocalCreates(r) == {i \in Creates(r) : ~ops[r][i].virtual}
VirtualCreates(r) == {i \in Creates(r) : ops[r][i].virtual}

\* A local path below the local root, with the leading local root and its
\* separator removed, and nothing else.
RootStripped(s, local_path) == Drop(local_path, Len(s.local_path) + 1)

\* The mapping rule: project id / remote prefix / local path below the root.
MappedPath(s, local_path) ==
    Join3(s.synapse_project,
          IF s.remote_path # None THEN s.remote_path ELSE Empty,
          RootStripped(s, local_path))

\* The local paths of the directories below the local root.
LocalSubdirs(r) == {DirPath(self[r].local_path, rel) : rel \in DOMAIN fs \ {Root}}

(***************************************************************************)
(* The properties.                                                         *)
(***************************************************************************)
\* C1: whenever upload_file_to_synapse looks up the parent of a file, the
\* remote parent path it computed is a key of the folder cache: the lookup of
\* a run never raises KeyError, whatever the tree and the remote prefix.
C1_UploadParentCached ==
    \A r \in Runs : ~CacheLookupFailed(r, "Processing File")

\* C2: every call of create_directory_in_synapse, for a prefix segment or for a
\* local subdirectory, finds the parent path of its folder in the folder cache:
\* its lookup never raises KeyError.
C2_CreateParentCached ==
    \A r \in Runs : ~CacheLookupFailed(r, "Processing Folder")

\* C3: after a run, the remote folders created for local directories are
\* exactly the local subdirectories mapped by the rule project id / prefix /
\* path below the root, and no key was created while already in the cache.
C3_FoldersMirrorSubdirs ==
    \A r \in Runs :
        /\ \A i \in Creates(r) : ~ops[r][i].existed
        /\ frame[r].pc = "done" =>
              {ops[r][i].synapse_path : i \in LocalCreates(r)}
                 = {MappedPath(self[r], d) : d \in LocalSubdirs(r)}

\* The handle a file of the local directory dir is to be uploaded under: for
\* the local root, that of the last prefix folder, or of the project when there
\* is no prefix; else the one create_directory_in_synapse stored for dir.
IsHandleOfDir(r, h, dir) ==
    IF dir = self[r].local_path
    THEN IF VirtualCreates(r) # {}
         THEN \E i \in VirtualCreates(r) :
                 /\ \A j \in VirtualCreates(r) : j <= i
                 /\ h = ops[r][i].handle
         ELSE h.id = ProjectEntityId
    ELSE \E i \in LocalCreates(r) : ops[r][i].path = dir /\ h = ops[r][i].handle

\* C4: every file is uploaded under the remote folder of the local directory
\* that contains it.
C4_FileUnderItsDirectory ==
    \A r \in Runs : \A i \in Uploads(r) :
        IsHandleOfDir(r, ops[r][i].parent, DirName(ops[r][i].path))

\* C5: get_synapse_path(local_path, False) is the join of the project id, the
\* remote prefix (if any) and the local path with only its leading local root
\* removed; get_synapse_path(path, True) is the join of the project id and
\* the path.
C5_PathIsMappedPath ==
    \A r \in Runs : \A i \in 1..Len(ops[r]) :
        ops[r][i].synapse_path =
            IF ops[r][i].virtual
            THEN Join(self[r].synapse_project, ops[r][i].path)
            ELSE MappedPath(self[r], ops[r][i].path)

\* C6 as stated: a dry run makes no call to the remote store at all, no login,
\* no get and no store.
C6_DryRunNoRemoteCall ==
    \A r \in Runs : self[r].dry_run => calls[r] = <<>>

\* C6, amended: a dry run makes no store call.  Its only remote calls are the
\* login and the get of the project, in this order and once each; the service
\* is left as it was; every folder it creates gets the placeholder id, and
\* every file it skips is logged.
C6_DryRunStoresNothing ==
    \A r \in Runs : self[r].dry_run =>
        /\ \A i \in 1..Len(calls[r]) : calls[r][i].op # "store"
        /\ Len(calls[r]) <= 2
        /\ Len(calls[r]) >= 1 => calls[r][1].op = "login"
        /\ Len(calls[r]) >= 2 => calls[r][2].op = "get"
        /\ synapse[r] = InitialSynapse(self[r].synapse_project)
        /\ \A i \in Creates(r) : ops[r][i].handle.id = DryRunFolderId
        /\ \A i \in Uploads(r) : \E j \in 1..Len(console[r]) :
              console[r][j] = [text |-> "Processing File", arg |-> ops[r][i].path]

\* A dry run that completed, having created a folder and skipped a file.
C6_Witness ==
    \E r \in Runs :
        /\ self[r].dry_run
        /\ frame[r].pc = "done"
        /\ Creates(r) # {}
        /\ Uploads(r) # {}

\* The 'Processing Folder' and 'Processing File' lines of run r, in order.
ProcessingLines(r) ==
    LET IsProcessing(l) == l.text \in {"Processing Folder", "Processing File"}
    IN  SelectSeq(console[r], IsProcessing)

\* C7: of a dry run (run 1) and a real run (run 2) of the same command line on
\* the same tree, the dry run makes no store call and stores no file, and once
\* the real run has ended without a failed remote call, both have printed the
\* same sequence of 'Processing' lines.
C7_DryRunSameLines ==
    (Runs = {1, 2} /\ self[1].dry_run /\ ~self[2].dry_run) =>
        /\ \A i \in 1..Len(calls[1]) : calls[1][i].op # "store"
        /\ \A i \in 1..Len(synapse[1]) : synapse[1][i].kind # "File"
        /\ EndedByItself(2) => ProcessingLines(1) = ProcessingLines(2)

\* Both runs completed, the real one having stored a folder and a file.
C7_Witness ==
    /\ Runs = {1, 2}
    /\ self[1].dry_run /\ ~self[2].dry_run
    /\ frame[1].pc = "done" /\ frame[2].pc = "done"
    /\ \E i \in 1..Len(synapse[2]) : synapse[2][i].kind = "File"
    /\ \E i \in 1..Len(synapse[2]) : synapse[2][i].kind = "Folder"
    /\ Len(ProcessingLines(1)) >= 2

RECURSIVE CumulativePath(_, _)
\* The first i segments, joined by the separator.
CumulativePath(segs, i) ==
    IF i = 1 THEN segs[1] ELSE CumulativePath(segs, i - 1) \o <<SEP>> \o segs[i]

\* The paths of the completed operations of run r, in order.
OpPaths(r) == [i \in 1..Len(ops[r]) |-> ops[r][i].synapse_path]

\* C8: the remote prefix is split on the separator, its empty segments are
\* dropped, and one folder per segment is created with the cumulative path,
\* root to leaf, before the walk creates a folder or uploads a file; and a run
\* with the prefix 'r//q' creates the same virtual folders as one with 'r/q'
\* and then proceeds as that run does.
C8_PrefixSegmentsThenWalk ==
    /\ \A r \in Runs :
          LET segs == PrefixSegments(self[r])
          IN  /\ \A i \in VirtualCreates(r) :
                    /\ i <= Len(segs)
                    /\ ops[r][i].path = CumulativePath(segs, i)
              /\ frame[r].pc \in {"walk", "files", "done"} =>
                    VirtualCreates(r) = 1..Len(segs)
    /\ ( /\ Runs = {1, 2}
         /\ argv[1].remote_folder_path = <<"r", "/", "q">>
         /\ argv[2].remote_folder_path = <<"r", "/", "/", "q">>
         /\ EndedByItself(2) )
       => (frame[2].pc = "done" /\ OpPaths(2) = OpPaths(1))

\* A remote path argument of whitespace, then separators, then whitespace (any
\* of them possibly empty).
IsBlank(a) ==
    /\ a # None
    /\ \E i \in 0..Len(a) : \E j \in i..Len(a) :
          /\ \A n \in 1..i : a[n] = SP
          /\ \A n \in (i + 1)..j : a[n] = SEP
          /\ \A n \in (j + 1)..Len(a) : a[n] = SP

\* C9: of a run without a remote prefix (run 1) and a run whose remote prefix
\* argument is blank (run 2), on the same tree, the second creates no virtual
\* folder and, once ended, has made the same folder creations and uploads, has
\* the same cache and has printed the same lines as the first.
C9_BlankPrefixIsNoPrefix ==
    ( /\ Runs = {1, 2}
      /\ argv[1].remote_folder_path = None
      /\ IsBlank(argv[2].remote_folder_path) )
    => /\ VirtualCreates(2) = {}
       /\ EndedByItself(2) =>
             /\ frame[2].pc = frame[1].pc
             /\ ops[2] = ops[1]
             /\ console[2] = console[1]
             /\ self[2].synapse_folders = self[1].synapse_folders

\* The second run had a blank, non-empty remote prefix argument and completed,
\* having created a folder and uploaded a file.
C9_Witness ==
    /\ Runs = {1, 2}
    /\ argv[1].remote_folder_path = None
    /\ IsBlank(argv[2].remote_folder_path)
    /\ argv[2].remote_folder_path # Empty
    /\ frame[2].pc = "done"
    /\ Creates(2) # {}
    /\ Uploads(2) # {}

\* C10: a key of the folder cache is never removed, and the handle under it is
\* never replaced by a later set_synapse_folder.
C10_CacheEntriesNeverReplaced ==
    [][\A r \in Runs : \A k \in DOMAIN self[r].synapse_folders :
          /\ k \in DOMAIN self'[r].synapse_folders
          /\ self'[r].synapse_folders[k] = self[r].synapse_folders[k]]_vars

\* C11: when SYNAPSE_USER or SYNAPSE_PASSWORD is absent, a run, dry or not,
\* gets no further than login(), where the lookup of the absent variable raises
\* KeyError: it makes no remote call, creates no folder, uploads no file and
\* leaves the service as it was.
C11_NoCredentialsNoRemoteCall ==
    \A r \in Runs : environ[r] # EnvNames =>
        /\ frame[r].pc \in {"start", "login", "failed"}
        /\ frame[r].pc = "failed" =>
              /\ frame[r].error.exc = "KeyError"
              /\ frame[r].error.key \in {<<"SYNAPSE_USER">>, <<"SYNAPSE_PASSWORD">>}
              /\ frame[r].error.key[1] \notin environ[r]
              /\ LastLine(r).text = "Logging into Synapse..."
        /\ calls[r] = <<>>
        /\ ops[r] = <<>>
        /\ self[r].synapse_folders = <<>>
        /\ synapse[r] = InitialSynapse(self[r].synapse_project)

\* A dry run that login() ended for want of the password alone.
C11_Witness ==
    \E r \in Runs :
        /\ self[r].dry_run
        /\ environ[r] = {"SYNAPSE_USER"}
        /\ frame[r].pc = "failed"

\* The lines start() ends with.
CompletionLines ==
    {"Dry Run Completed Successfully.", "Upload Completed Successfully."}

\* C12: a failed login, get or store call ends the run at once: it is the last
\* remote call of the run (no later call, no retry), the run has ended with the
\* error of the service, no completion line is printed, the failed operation
\* is not counted as done, and every entity stored before the failure is still
\* in the service (no rollback).
C12_FailedCallEndsRun ==
    \A r \in Runs : \A i \in 1..Len(calls[r]) : ~calls[r][i].ok =>
        /\ i = Len(calls[r])
        /\ frame[r].pc = "failed"
        /\ frame[r].error = SynapseError
        /\ \A j \in 1..Len(console[r]) : console[r][j].text \notin CompletionLines
        /\ Len(ops[r]) = Cardinality({j \in 1..(i - 1) : calls[r][j].op = "store"})
        /\ \A j \in 1..(i - 1) : calls[r][j].op = "store" =>
              \E k \in 1..Len(synapse[r]) :
                  synapse[r][k] = [kind |-> calls[r][j].kind,
                                   name |-> calls[r][j].name,
                                   parent |-> calls[r][j].parent]

\* A store call failed after a folder and a file had been stored.
C12_Witness ==
    \E r \in Runs :
        /\ calls[r] # <<>>
        /\ calls[r][Len(calls[r])].op = "store"
        /\ ~calls[r][Len(calls[r])].ok
        /\ \E k \in 1..Len(synapse[r]) : synapse[r][k].kind = "Folder"
        /\ \E k \in 1..Len(synapse[r]) : synapse[r][k].kind = "File"

\* The paths create_directory_in_synapse was called with by run r: each call
\* begins by printing its path.
CreateCallPaths(r) ==
    {console[r][j].arg : j \in {k \in 1..Len(console[r]) :
                                   console[r][k].text = "Processing Folder"}}

\* The cumulative paths of the segments of the remote prefix of run r.
PrefixPaths(r) ==
    LET segs == PrefixSegments(self[r])
    IN  {CumulativePath(segs, i) : i \in 1..Len(segs)}

\* C13: create_directory_in_synapse is never called with the local root, be it
\* as given on the command line (with trailing separators) or stripped of
\* them: it is called with prefix segments and with directories below the
\* root only.
C13_RootNeverCreated ==
    \A r \in Runs :
        /\ self[r].local_path \notin CreateCallPaths(r)
        /\ argv[r].local_folder_path \notin CreateCallPaths(r)
        /\ CreateCallPaths(r) \subseteq PrefixPaths(r) \cup LocalSubdirs(r)
        /\ \A i \in LocalCreates(r) : ops[r][i].path \in LocalSubdirs(r)

\* A run whose local path was given with a trailing separator completed,
\* having created a folder for a directory below the root.
C13_Witness ==
    \E r \in Runs :
        /\ argv[r].local_folder_path = <<"d", "/">>
        /\ frame[r].pc = "done"
        /\ LocalCreates(r) # {}

\* The local paths of the files of the local directory dirpath.
FilesIn(r, dirpath) ==
    UNION {{Join(dirpath, fs[rel].filenames[i]) : i \in 1..Len(fs[rel].filenames)} :
              rel \in {q \in DOMAIN fs : DirPath(self[r].local_path, q) = dirpath}}

\* C14: the operations of a run happen one at a time, in walk order.  Of the
\* 'Processing' lines, one per operation begun: an operation begins only when
\* the one before is done; the folder of a directory is processed before any
\* file in it and before any directory below it; and when the walk reaches a
\* directory, or ends, every file of the directories reached before has been
\* processed.
C14_OneAtATimeInWalkOrder ==
    \A r \in Runs :
        LET P == ProcessingLines(r)
            IsFolderLine(k, d) == P[k] = [text |-> "Processing Folder", arg |-> d]
            IsFileLine(k, f) == P[k] = [text |-> "Processing File", arg |-> f]
            Reached(k) ==
                {self[r].local_path} \cup
                {d \in LocalSubdirs(r) : \E j \in 1..(k - 1) : IsFolderLine(j, d)}
        IN  /\ Len(P) \in {Len(ops[r]), Len(ops[r]) + 1}
            /\ Len(P) # Len(ops[r]) => frame[r].pc = "failed"
            /\ \A k \in 1..Len(P) :
                  \/ DirName(P[k].arg) \in {self[r].local_path, Empty}
                  \/ \E j \in 1..(k - 1) : IsFolderLine(j, DirName(P[k].arg))
            /\ \A k \in 1..Len(P) :
                  (P[k].text = "Processing Folder" /\ P[k].arg \in LocalSubdirs(r)) =>
                      \A d \in Reached(k) : \A f \in FilesIn(r, d) :
                          \E j \in 1..(k - 1) : IsFileLine(j, f)
            /\ frame[r].pc = "done" =>
                  \A d \in Reached(Len(P) + 1) : \A f \in FilesIn(r, d) :
                      \E j \in 1..Len(P) : IsFileLine(j, f)

\* A run completed on a tree whose root holds a file and a directory, which
\* holds a file and a directory itself.
C14_Witness ==
    \E r \in Runs :
        /\ frame[r].pc = "done"
        /\ FilesIn(r, self[r].local_path) # {}
        /\ \E i \in Uploads(r) : DirName(ops[r][i].path) \in LocalSubdirs(r)
        /\ \E i \in LocalCreates(r) : DirName(ops[r][i].path) \in LocalSubdirs(r)

\* C15: a dry run, on any tree and with any remote prefix, runs to completion
\* (stated for the runs whose credentials are present and whose login and get
\* succeed): it never ends with an exception, its first line is the banner,
\* the folders it creates get the placeholder id only, and once it is done it
\* has printed a line for every folder and file and, last, the line
\* 'Dry Run Completed Successfully.'.
C15_DryRunCompletes ==
    \A r \in Runs :
        ( /\ self[r].dry_run
          /\ environ[r] = EnvNames
          /\ \A i \in 1..Len(calls[r]) : calls[r][i].ok )
        => /\ frame[r].pc # "failed"
           /\ console[r] # <<>> => console[r][1].text = "~~ Dry Run ~~"
           /\ \A i \in Creates(r) : ops[r][i].handle.id = DryRunFolderId
           /\ frame[r].pc = "done" =>
                 /\ LastLine(r).text = "Dry Run Completed Successfully."
                 /\ LocalSubdirs(r) \subseteq CreateCallPaths(r)
                 /\ \A d \in LocalSubdirs(r) \cup {self[r].local_path} :
                       \A f \in FilesIn(r, d) :
                           \E j \in 1..Len(console[r]) :
                               console[r][j] = [text |-> "Processing File", arg |-> f]

\* The store calls of run r, and what each stored.
StoreCalls(r) == {i \in 1..Len(calls[r]) : calls[r][i].op = "store"}
StoredEntity(r, i) ==
    [kind |-> calls[r][i].kind, name |-> calls[r][i].name,
     parent |-> calls[r][i].parent]

\* The number of files of the local tree.
FileCount ==
    Cardinality({<<rel, i>> \in (DOMAIN fs) \X (1..Cardinality(FileNames)) :
                    i <= Len(fs[rel].filenames)})

\* C17: a real run that completed has called store once per non-empty prefix
\* segment, once per local subdirectory and once per local file, never for the
\* project or the local root, and has stored no folder and no file twice.
C17_OneStorePerItem ==
    \A r \in Runs : (~self[r].dry_run /\ frame[r].pc = "done") =>
        /\ Cardinality({i \in StoreCalls(r) : calls[r][i].kind = "Folder"})
              = Len(PrefixSegments(self[r])) + Cardinality(DOMAIN fs \ {Root})
        /\ Cardinality({i \in StoreCalls(r) : calls[r][i].kind = "File"}) = FileCount
        /\ \A i \in StoreCalls(r) : calls[r][i].kind \in {"Folder", "File"}
        /\ self[r].local_path \notin CreateCallPaths(r)
        /\ \A i, j \in StoreCalls(r) :
              i # j => StoredEntity(r, i) # StoredEntity(r, j)

\* C18: login() is entered once in a run, and, the credentials being there,
\* calls the service once, before the one get of the project; the project
\* handle is in the folder cache, under the project id, before any folder or
\* file is processed; it is the first entry of the cache and no folder entry
\* ever takes its place.
C18_LoginGetThenProjectRoot ==
    \A r \in Runs :
        LET Logins == {i \in 1..Len(calls[r]) : calls[r][i].op = "login"}
            Gets == {i \in 1..Len(calls[r]) : calls[r][i].op = "get"}
            Entered == {j \in 1..Len(console[r]) :
                           console[r][j].text = "Logging into Synapse..."}
            cache == self[r].synapse_folders
            project_id == self[r].synapse_project
        IN  /\ Logins \subseteq {1}
            /\ Gets \subseteq {2}
            /\ Gets # {} => Logins # {} /\ calls[r][1].ok
            /\ Cardinality(Entered) = IF frame[r].pc \in {"start", "login"} THEN 0 ELSE 1
            /\ (frame[r].pc \notin {"start", "login"} /\ environ[r] = EnvNames) =>
                  Logins = {1}
            /\ frame[r].pc \in {"prefix", "walk", "files", "done"} => Gets = {2}
            /\ ProcessingLines(r) # <<>> => project_id \in DOMAIN cache
            /\ DOMAIN cache # {} =>
                  /\ project_id \in DOMAIN cache
                  /\ cache[project_id].id = ProjectEntityId
                  /\ cache[project_id].name = project_id
                  /\ \A k \in DOMAIN cache :
                        k # project_id => cache[k].obj > cache[project_id].obj

\* A real run completed with two folder entries in its cache beside the
\* project's.
C18_Witness ==
    \E r \in Runs :
        /\ ~self[r].dry_run
        /\ frame[r].pc = "done"
        /\ Cardinality(DOMAIN self[r].synapse_folders) >= 3

====
